---- MODULE Spec2Model ----
(***************************************************************************)
(* Process system calls of os161-1.99 (OPT_A2): sys_fork, sys__exit,       *)
(* sys_waitpid and sys_execv of proc_syscalls.c.  Spec follows the copy    *)
(* that takes p->p_Lock around the exit transition and has sys_execv;      *)
(* SpecPlain follows the sys__exit of kern/syscall/proc_syscalls.c, which  *)
(* takes no lock; ExecSpec follows one sys_execv call step by step.  One   *)
(* kernel thread per process; thread t runs process record t, and the pid  *)
(* of record t is t.  Steps that touch only what the running thread owns   *)
(* are taken together with the next step that other threads can observe.   *)
(***************************************************************************)
EXTENDS Integers, Sequences, FiniteSets, TLC

(* ---------------------------- bounds ----------------------------------- *)
MaxProcs == 3        \* process records ever created (pids 1..MaxProcs)
MaxExit == 1         \* exit codes passed to _exit are 0..MaxExit
MaxCalls == 4        \* system calls issued in one run of the system

Procs == 1..MaxProcs
ExitCodes == 0..MaxExit
NULL == 0            \* the null struct proc pointer / "no thread"
Unset == -1          \* exitcode of a record before sys__exit writes it

(* ------------------------- program state ------------------------------- *)
VARIABLES
  calls,        \* system calls issued so far by each process
  nextPid,      \* next pid handed out by proc_create_runprogram
  status,       \* p->status   : "Alive" | "Zombie"
  exitcode,     \* p->exitcode
  parent,       \* p->parent   : record or NULL
  children,     \* p->children : array of records, in array_add order
  destroyed,    \* TRUE once the record was passed to proc_destroy
  lockHolder,   \* p->p_Lock   : thread holding it, or NULL
  pc,           \* position of the thread of each process
  loc,          \* locals and arguments of the system call in progress
  res,          \* what the last system call returned to user mode
  ustatus,      \* the int at the user status location of each process
  uaf,          \* a field of a destroyed record has been read or written
  reaped,       \* pids for which sys_waitpid returned success, per caller
  hist,         \* per-thread history facts used to state the properties
  ex            \* the sys_execv call of the first process (see sys_execv)

vars == <<calls, nextPid, status, exitcode, parent, children, destroyed, lockHolder,
          pc, loc, res, ustatus, uaf, reaped, hist, ex>>

(* the state of the process records and of their threads *)
pvars == <<calls, nextPid, status, exitcode, parent, children, destroyed,
           lockHolder, pc, loc, res, ustatus, uaf, reaped, hist>>

recs == <<status, exitcode, parent, children, destroyed>>

NoLoc == [pid |-> 0, opt |-> 0, ptr |-> TRUE, child |-> NULL, code |-> 0,
          has |-> FALSE]
NoRes == [call |-> "none", ret |-> "none", retval |-> 0]
NoHist == [pre |-> FALSE, again |-> FALSE, blocked |-> FALSE, wrote |-> FALSE,
           nkids |-> 0,
           zkids |-> {}, dec |-> "none", pgone |-> FALSE, pexited |-> FALSE]

SeqToSet(s) == {s[k] : k \in 1..Len(s)}

RECURSIVE SumTo(_, _)
SumTo(f, n) == IF n = 0 THEN 0 ELSE f[n] + SumTo(f, n - 1)
(* the number of system calls issued so far in the whole system *)
Issued == SumTo(calls, MaxProcs)

(* the exit status encoding of kern/wait.h: (x << 2) | _WWHAT_EXITED *)
MKWAIT_EXIT(x) == x * 4

(* ----------------- reads through possibly dangling pointers ------------ *)
(* A record passed to proc_destroy is freed memory: a later read of one of *)
(* its fields may yield any value of the field's type.  So may a read of   *)
(* an exit code that was never written.                                    *)
PidOf(q) == IF destroyed[q] THEN Procs ELSE {q}
StatusOf(q) == IF destroyed[q] THEN {"Alive", "Zombie"} ELSE {status[q]}
ExitcodeOf(q) ==
  IF destroyed[q] \/ exitcode[q] = Unset THEN ExitCodes ELSE {exitcode[q]}

(* the threads asleep on the wait channel of q->p_cv *)
Sleepers(q) == {t \in Procs : pc[t] = "wait_sleep" /\ loc[t].child = q}

(* no sys_execv call is being followed *)
NoEx == [pc |-> "none"]

(* ----------------------------- Init ------------------------------------ *)
(* One user process, created by runprogram from the kernel menu: it has no *)
(* parent.  The other records do not exist yet.                            *)
InitProcs ==
  /\ calls = [p \in Procs |-> 0]
  /\ nextPid = 2
  /\ status = [p \in Procs |-> "Alive"]
  /\ exitcode = [p \in Procs |-> Unset]
  /\ parent = [p \in Procs |-> NULL]
  /\ children = [p \in Procs |-> << >>]
  /\ destroyed = [p \in Procs |-> FALSE]
  /\ lockHolder = [p \in Procs |-> NULL]
  /\ pc = [p \in Procs |-> IF p = 1 THEN "user" ELSE "unborn"]
  /\ loc = [p \in Procs |-> NoLoc]
  /\ res = [p \in Procs |-> NoRes]
  /\ ustatus = [p \in Procs |-> Unset]
  /\ uaf = FALSE
  /\ reaped = [p \in Procs |-> {}]
  /\ hist = [p \in Procs |-> NoHist]

Init == InitProcs /\ ex = NoEx

(* ----------------------------- sys_fork -------------------------------- *)
Returned(call, ret, retval) == [call |-> call, ret |-> ret, retval |-> retval]

(* proc_create_runprogram, lock_acquire(parent->p_Lock), array_add into    *)
(* parent->children, child->parent = parent                                *)
fork_enter(t) ==
  /\ pc[t] = "user"
  /\ Issued < MaxCalls
  /\ calls' = [calls EXCEPT ![t] = @ + 1]
  /\ lockHolder[t] = NULL
  /\ hist' = [hist EXCEPT ![t] = [NoHist EXCEPT !.nkids = Len(children[t])]]
  /\ \/ \* proc_create_runprogram returned NULL
        /\ res' = [res EXCEPT ![t] = Returned("fork", "ENOMEM", 0)]
        /\ loc' = [loc EXCEPT ![t] = NoLoc]
        /\ UNCHANGED <<nextPid, recs, lockHolder, pc>>
     \/ \* array_add failed: proc_destroy(child), lock_release, return err
        /\ nextPid <= MaxProcs
        /\ nextPid' = nextPid + 1
        /\ destroyed' = [destroyed EXCEPT ![nextPid] = TRUE]
        /\ res' = [res EXCEPT ![t] = Returned("fork", "ENOMEM", 0)]
        /\ loc' = [loc EXCEPT ![t] = NoLoc]
        /\ UNCHANGED <<status, exitcode, parent, children, lockHolder, pc>>
     \/ \* the child is registered; the caller goes on holding its lock
        /\ nextPid <= MaxProcs
        /\ nextPid' = nextPid + 1
        /\ children' = [children EXCEPT ![t] = Append(@, nextPid)]
        /\ parent' = [parent EXCEPT ![nextPid] = t]
        /\ lockHolder' = [lockHolder EXCEPT ![t] = t]
        /\ loc' = [loc EXCEPT ![t] = [NoLoc EXCEPT !.child = nextPid]]
        /\ pc' = [pc EXCEPT ![t] = "fork_copy"]
        /\ res' = [res EXCEPT ![t] = NoRes]
        /\ UNCHANGED <<status, exitcode, destroyed>>
  /\ UNCHANGED <<ustatus, uaf, reaped>>
  /\ UNCHANGED ex

(* the error returns leave without releasing the lock                      *)
fork_unwind_locked(t) == lockHolder

(* lock_release(parent->p_Lock) on the error returns that follow a failed  *)
(* as_copy or a failed kmalloc of the trapframe copy                       *)
fork_unwind(t) == [lockHolder EXCEPT ![t] = NULL]

(* as_copy under the spinlock and kmalloc of the trapframe copy; then      *)
(* lock_release(parent->p_Lock), thread_fork (its result is ignored),      *)
(* *retval = child->pid, return 0                                          *)
fork_finish(t) ==
  LET child == loc[t].child IN
  /\ pc[t] = "fork_copy"
  /\ lockHolder[t] = t
  /\ loc' = [loc EXCEPT ![t] = NoLoc]
  /\ \/ \* as_copy or kmalloc failed: proc_destroy(child), return the error
        /\ lockHolder' = fork_unwind(t)
        /\ destroyed' = [destroyed EXCEPT ![child] = TRUE]
        /\ res' = [res EXCEPT ![t] = Returned("fork", "ENOMEM", 0)]
        /\ pc' = [pc EXCEPT ![t] = "user"]
     \/ /\ lockHolder' = [lockHolder EXCEPT ![t] = NULL]
        /\ \E started \in BOOLEAN :
             pc' = [pc EXCEPT ![t] = "user",
                              ![child] = IF started THEN "user" ELSE @]
        /\ res' = [res EXCEPT ![t] = Returned("fork", "0", child)]
        /\ UNCHANGED destroyed
  /\ UNCHANGED <<calls, nextPid, status, exitcode, parent, children, ustatus,
                 uaf, reaped, hist>>
  /\ UNCHANGED ex

sys_fork(t) == fork_enter(t) \/ fork_finish(t)

(* ----------------------------- sys__exit ------------------------------- *)
(* the branch taken by  p->parent == NULL || p->parent->status == Zombie   *)
exit_decide(par, st) ==
  IF par = NULL \/ st = "Zombie" THEN "destroy" ELSE "zombie"

(* as_deactivate, curproc_setas(NULL), as_destroy, proc_remthread; then    *)
(* the test of the parent link and of the parent's status                  *)
exit_begin(t, c) ==
  /\ pc[t] = "user"
  /\ Issued < MaxCalls
  /\ calls' = [calls EXCEPT ![t] = @ + 1]
  /\ loc' = [loc EXCEPT ![t] = [NoLoc EXCEPT !.code = c]]
  /\ res' = [res EXCEPT ![t] = NoRes]
  /\ \E st \in (IF parent[t] = NULL THEN {"Alive"} ELSE StatusOf(parent[t])) :
       LET d == exit_decide(parent[t], st) IN
       /\ pc' = [pc EXCEPT ![t] = IF d = "destroy" THEN "exit_destroy" ELSE "exit_status"]
       /\ hist' = [hist EXCEPT ![t] = [NoHist EXCEPT
             !.zkids = {k \in SeqToSet(children[t]) :
                /\ ~destroyed[k] /\ status[k] = "Zombie" /\ pc[k] = "exited"
                /\ k \notin reaped[t]},
             !.pexited = (parent[t] # NULL /\ pc[parent[t]] = "exited"),
             !.dec = d,
             !.pgone = (parent[t] # NULL /\ destroyed[parent[t]])]]
  /\ uaf' = (uaf \/ (parent[t] # NULL /\ destroyed[parent[t]]))
  /\ UNCHANGED <<nextPid, recs, lockHolder, ustatus, reaped>>
  /\ UNCHANGED ex

(* proc_destroy(p); thread_exit()                                          *)
exit_destroy(t) ==
  /\ pc[t] = "exit_destroy"
  /\ destroyed' = [destroyed EXCEPT ![t] = TRUE]
  /\ pc' = [pc EXCEPT ![t] = "exited"]
  /\ UNCHANGED <<calls, nextPid, status, exitcode, parent, children, lockHolder,
                 loc, res, ustatus, uaf, reaped, hist>>
  /\ UNCHANGED ex

(* the stores go to the parent's record instead of the caller's own        *)
exit_target_parent(t) == parent[t]

(* the record whose status and exitcode sys__exit stores to: p = curproc   *)
exit_target(t) == t

(* lock_acquire(p->p_Lock), the exiting process's own lock;                *)
(* p->status = Zombie                                                      *)
exit_status(t) ==
  /\ pc[t] = "exit_status"
  /\ lockHolder[t] = NULL
  /\ lockHolder' = [lockHolder EXCEPT ![t] = t]
  /\ status' = [status EXCEPT ![exit_target(t)] = "Zombie"]
  /\ pc' = [pc EXCEPT ![t] = "exit_code"]
  /\ UNCHANGED <<calls, nextPid, exitcode, parent, children, destroyed,
                 loc, res, ustatus, uaf, reaped, hist>>
  /\ UNCHANGED ex

(* p->exitcode = exitcode                                                  *)
exit_code(t) ==
  /\ pc[t] = "exit_code"
  /\ exitcode' = [exitcode EXCEPT ![exit_target(t)] = loc[t].code]
  /\ pc' = [pc EXCEPT ![t] = "exit_bcast"]
  /\ UNCHANGED <<calls, nextPid, status, parent, children, destroyed, lockHolder,
                 loc, res, ustatus, uaf, reaped, hist>>
  /\ UNCHANGED ex

(* cv_broadcast(p->p_cv, p->parent->p_Lock): wakes every thread asleep on  *)
(* p->p_cv, each of which has to take its lock again before it goes on;    *)
(* lock_release(p->p_Lock); thread_exit()                                  *)
exit_bcast(t) ==
  /\ pc[t] = "exit_bcast"
  /\ lockHolder[t] = t
  /\ lockHolder' = [lockHolder EXCEPT ![t] = NULL]
  /\ pc' = [u \in Procs |-> IF u = t THEN "exited"
                            ELSE IF u \in Sleepers(t) THEN "wait_wake"
                            ELSE pc[u]]
  /\ uaf' = (uaf \/ destroyed[parent[t]])
  /\ UNCHANGED <<calls, nextPid, recs, loc, res, ustatus, reaped, hist>>
  /\ UNCHANGED ex

sys__exit(t) ==
  \/ \E c \in ExitCodes : exit_begin(t, c)
  \/ exit_destroy(t) \/ exit_status(t) \/ exit_code(t) \/ exit_bcast(t)

(* ---------------------------- sys_waitpid ------------------------------ *)
Options == {0, 1}

(* the options test dropped: no call is rejected                           *)
wait_invalid_never(options) == FALSE

(* the test  options != 0  that rejects the call                           *)
wait_invalid(options) == options # 0

(* The loop over parent->children comparing child->pid with pid: the       *)
(* indexes at which it can stop, Len + 1 when it runs off the end.  It     *)
(* stops at k when the pid read from entry k is pid and the pid read from  *)
(* every earlier entry is not.                                             *)
wait_scan(kids, pid) ==
  {k \in 1..(Len(kids) + 1) :
     /\ k <= Len(kids) => pid \in PidOf(kids[k])
     /\ \A j \in 1..(k - 1) : PidOf(kids[j]) # {pid}}

(* the options check; lock_acquire(parent->p_Lock); the scan of            *)
(* parent->children; when no entry matches: lock_release, *retval = -1,    *)
(* return ESRCH                                                            *)
wait_begin(t, pid, options) ==
  /\ pc[t] = "user"
  /\ Issued < MaxCalls
  /\ calls' = [calls EXCEPT ![t] = @ + 1]
  /\ lockHolder[t] = NULL
  /\ hist' = [hist EXCEPT ![t] = [NoHist EXCEPT
                 !.pre = (parent[pid] = t /\ pc[pid] = "exited"),
                 !.again = (pid \in reaped[t])]]
  /\ IF wait_invalid(options)
       THEN /\ res' = [res EXCEPT ![t] = Returned("waitpid", "EINVAL", 0)]
            /\ loc' = [loc EXCEPT ![t] = [NoLoc EXCEPT !.pid = pid, !.opt = options]]
            /\ UNCHANGED <<pc, lockHolder, uaf>>
       ELSE \E k \in wait_scan(children[t], pid) :
            /\ uaf' = (uaf \/ \E j \in 1..Len(children[t]) :
                                j <= k /\ destroyed[children[t][j]])
            /\ IF k > Len(children[t])
                 THEN /\ res' = [res EXCEPT ![t] = Returned("waitpid", "ESRCH", -1)]
                      /\ loc' = [loc EXCEPT ![t] =
                                   [NoLoc EXCEPT !.pid = pid, !.opt = options]]
                      /\ UNCHANGED <<pc, lockHolder>>
                 ELSE /\ res' = [res EXCEPT ![t] = NoRes]
                      /\ loc' = [loc EXCEPT ![t] =
                                   [NoLoc EXCEPT !.pid = pid, !.opt = options,
                                      !.has = TRUE, !.child = children[t][k]]]
                      /\ lockHolder' = [lockHolder EXCEPT ![t] = t]
                      /\ pc' = [pc EXCEPT ![t] = "wait_check"]
  /\ UNCHANGED <<nextPid, recs, ustatus, reaped>>
  /\ UNCHANGED ex

(* the loop test  child->status == Alive                                   *)
wait_check(t) ==
  LET child == loc[t].child IN
  /\ pc[t] = "wait_check"
  /\ \E st \in StatusOf(child) :
       pc' = [pc EXCEPT ![t] = IF st = "Alive" THEN "wait_cv" ELSE "wait_read"]
  /\ uaf' = (uaf \/ destroyed[child])
  /\ UNCHANGED <<calls, nextPid, recs, lockHolder, loc, res, ustatus, reaped, hist>>
  /\ UNCHANGED ex

(* cv_wait(child->p_cv, parent->p_Lock), first half: release the lock and  *)
(* go to sleep on the wait channel of the condition variable, atomically   *)
wait_cv(t) ==
  /\ pc[t] = "wait_cv"
  /\ lockHolder[t] = t
  /\ lockHolder' = [lockHolder EXCEPT ![t] = NULL]
  /\ pc' = [pc EXCEPT ![t] = "wait_sleep"]
  /\ hist' = [hist EXCEPT ![t].blocked = TRUE]
  /\ uaf' = (uaf \/ destroyed[loc[t].child])
  /\ UNCHANGED <<calls, nextPid, recs, loc, res, ustatus, reaped>>
  /\ UNCHANGED ex

(* cv_wait, second half: after the wakeup, take the lock again             *)
wait_wake(t) ==
  /\ pc[t] = "wait_wake"
  /\ lockHolder[t] = NULL
  /\ lockHolder' = [lockHolder EXCEPT ![t] = t]
  /\ pc' = [pc EXCEPT ![t] = "wait_check"]
  /\ UNCHANGED <<calls, nextPid, recs, loc, res, ustatus, uaf, reaped, hist>>
  /\ UNCHANGED ex

(* exitstatus = _MKWAIT_EXIT(child->exitcode); lock_release; copyout of    *)
(* the exit status to the user status location, which may fail;            *)
(* *retval = pid; return 0                                                 *)
wait_read(t) ==
  LET child == loc[t].child IN
  /\ pc[t] = "wait_read"
  /\ lockHolder[t] = t
  /\ lockHolder' = [lockHolder EXCEPT ![t] = NULL]
  /\ uaf' = (uaf \/ destroyed[child])
  /\ pc' = [pc EXCEPT ![t] = "user"]
  /\ \E ec \in ExitcodeOf(child), writable \in BOOLEAN :
       /\ loc' = [loc EXCEPT ![t].child = NULL, ![t].ptr = writable]
       /\ IF writable
            THEN /\ ustatus' = [ustatus EXCEPT ![t] = MKWAIT_EXIT(ec)]
                 /\ res' = [res EXCEPT ![t] = Returned("waitpid", "0", loc[t].pid)]
                 /\ reaped' = [reaped EXCEPT ![t] = @ \cup {loc[t].pid}]
                 /\ hist' = [hist EXCEPT ![t].wrote = TRUE]
            ELSE /\ res' = [res EXCEPT ![t] = Returned("waitpid", "EFAULT", 0)]
                 /\ UNCHANGED <<ustatus, reaped, hist>>
  /\ UNCHANGED <<calls, nextPid, recs>>
  /\ UNCHANGED ex

sys_waitpid(t) ==
  \/ \E pid \in Procs, options \in Options : wait_begin(t, pid, options)
  \/ wait_check(t) \/ wait_cv(t) \/ wait_wake(t) \/ wait_read(t)

Next == \E t \in Procs : sys_fork(t) \/ sys__exit(t) \/ sys_waitpid(t)

Spec == Init /\ [][Next]_vars

(* --------- sys__exit of kern/syscall/proc_syscalls.c (no p_Lock) ------- *)
(* p->status = Zombie, with no lock taken                                  *)
exit_status_plain(t) ==
  /\ pc[t] = "exit_status"
  /\ status' = [status EXCEPT ![t] = "Zombie"]
  /\ pc' = [pc EXCEPT ![t] = "exit_code"]
  /\ UNCHANGED <<calls, nextPid, exitcode, parent, children, destroyed,
                 lockHolder, loc, res, ustatus, uaf, reaped, hist>>
  /\ UNCHANGED ex

(* cv_broadcast(p->p_cv, p->parent->p_Lock); thread_exit()                 *)
exit_bcast_plain(t) ==
  /\ pc[t] = "exit_bcast"
  /\ pc' = [u \in Procs |-> IF u = t THEN "exited"
                            ELSE IF u \in Sleepers(t) THEN "wait_wake"
                            ELSE pc[u]]
  /\ uaf' = (uaf \/ destroyed[parent[t]])
  /\ UNCHANGED <<calls, nextPid, recs, lockHolder, loc, res, ustatus, reaped,
                 hist>>
  /\ UNCHANGED ex

sys__exit_plain(t) ==
  \/ \E c \in ExitCodes : exit_begin(t, c)
  \/ exit_destroy(t) \/ exit_status_plain(t) \/ exit_code(t)
  \/ exit_bcast_plain(t)

NextPlain ==
  \E t \in Procs : sys_fork(t) \/ sys__exit_plain(t) \/ sys_waitpid(t)

(* the system built from kern/syscall/proc_syscalls.c *)
SpecPlain == Init /\ [][NextPlain]_vars

(* ------------------------------ sys_execv ------------------------------ *)
(* One sys_execv call of the first process, followed step by step.  The    *)
(* argument vector the user passes is the input; user addresses are taken  *)
(* relative to a page boundary below the user stack.                       *)
MaxArgc == 2         \* arguments in the short argument vectors
MaxStrLen == 2       \* characters in the strings of the short vectors

ArgvSlots == 128     \* argv = kmalloc(128 * sizeof(char *))
StrBuf == 128        \* argv[i] = kmalloc(128 * sizeof(char)); copyinstr len
PtrSize == 4         \* copyout((void *)&ptr, stacktop, 4); stacktop += 4
StackTop == 8192     \* *stackptr as set by as_define_stack: page aligned
NUL == "NUL"         \* the byte that ends a string
Chars == {"a", "b"}  \* the other bytes

RECURSIVE SeqsUpTo(_, _)
(* the sequences over S of length at most n *)
SeqsUpTo(S, n) ==
  IF n = 0 THEN {<< >>}
  ELSE LET T == SeqsUpTo(S, n - 1) IN
       T \cup {Append(q, x) : q \in {r \in T : Len(r) = n - 1}, x \in S}

Rep(x, n) == [k \in 1..n |-> x]

Strings == SeqsUpTo(Chars, MaxStrLen)

(* The argument vectors tried: every short vector of short strings; one    *)
(* repeated one-character string, as many times as argv has slots, one     *)
(* fewer and one more; a single string that just fits the 128-byte buffer  *)
(* and one that just does not.                                             *)
ArgVectors ==
  SeqsUpTo(Strings, MaxArgc)
    \cup {Rep(<<"a">>, n) : n \in {ArgvSlots - 1, ArgvSlots, ArgvSlots + 1}}
    \cup {<<Rep("a", StrBuf - 1)>>, <<Rep("a", StrBuf)>>}

ROUNDUP(a, b) == ((a + b - 1) \div b) * b

(* the number of bytes before the first NUL of a kernel buffer *)
strlen(buf) ==
  LET nuls == {k \in 1..Len(buf) : buf[k] = NUL} IN
  IF nuls = {} THEN Len(buf)
  ELSE (CHOOSE k \in nuls : \A j \in nuls : k <= j) - 1

(* copyinstr(ptr, argv[i], 128, ..): the user string s with its NUL fits   *)
(* the buffer or the call fails with ENAMETOOLONG                          *)
copyinstr_fits(s) == Len(s) + 1 <= StrBuf
copyinstr(s) == Append(s, NUL)

(* copyoutstr(arg, stacktop, 128, ..): the bytes of the buffer up to and   *)
(* including its NUL, stored from user address a on                        *)
copyoutstr(mem, buf, a) ==
  LET n == strlen(buf) + 1 IN
  [x \in DOMAIN mem \cup (a..(a + n - 1)) |->
     IF x \in a..(a + n - 1) THEN buf[x - a + 1] ELSE mem[x]]

(* copyout of one 4-byte pointer to user address a *)
copyout(words, ptr, a) ==
  [x \in DOMAIN words \cup {a} |-> IF x = a THEN ptr ELSE words[x]]

(* what a load of argv[i] may yield (i counted from 0): the buffer stored  *)
(* there, or, past the end of the 128-slot allocation, whatever the        *)
(* neighbouring kernel memory holds                                        *)
argv_load(i) ==
  IF i < ArgvSlots THEN {ex.argv[i + 1]} ELSE {copyinstr(s) : s \in Strings}

ExecStart(a) ==
  [pc |-> "user", args |-> a, argv |-> << >>, argc |-> 0, overrun |-> FALSE,
   cur |-> "as0", as |-> "none", old_as |-> "none", live |-> {"as0"},
   twice |-> FALSE, loaded |-> FALSE, stackptr |-> 0, stacktop |-> 0,
   stackptrs |-> << >>, top |-> 0, i |-> 0, mem |-> << >>, words |-> << >>,
   ret |-> "none", entry |-> [argc |-> 0, argv |-> NULL, sp |-> 0]]

ExecInit == InitProcs /\ \E a \in ArgVectors : ex = ExecStart(a)

(* an error return: nothing is undone on the way out *)
execv_return(err) == [ex EXCEPT !.pc = "failed", !.ret = err]

(* progname and argv are copied into kernel buffers: kmalloc, copyin of    *)
(* each pointer args + 4 * i, copyinstr of each string, until the null     *)
(* pointer.  argv[i] is allocated before the pointer is looked at.         *)
execv_copyin ==
  /\ ex.pc = "user"
  /\ \/ \E err \in {"ENOMEM", "EFAULT"} : ex' = execv_return(err)
     \/ /\ \E k \in 1..Len(ex.args) : ~copyinstr_fits(ex.args[k])
        /\ ex' = execv_return("ENAMETOOLONG")
     \/ /\ \A k \in 1..Len(ex.args) : copyinstr_fits(ex.args[k])
        /\ ex' = [ex EXCEPT !.argv = [k \in 1..Len(ex.args) |-> copyinstr(ex.args[k])],
                            !.argc = Len(ex.args),
                            !.overrun = (Len(ex.args) >= ArgvSlots),
                            !.pc = "copied"]
  /\ UNCHANGED pvars

(* vfs_open; as_create (vfs_close and ENOMEM when it fails)                *)
execv_create ==
  /\ ex.pc = "copied"
  /\ \/ \E err \in {"ENOENT", "ENOMEM"} : ex' = execv_return(err)
     \/ ex' = [ex EXCEPT !.as = "as1", !.live = @ \cup {"as1"}, !.pc = "created"]
  /\ UNCHANGED pvars

(* the previous address space is destroyed by the switch                   *)
setas_drops(live, old) == live \ {old}

(* curproc_setas hands the previous address space back, still alive        *)
setas(live, old) == live

(* old_as = curproc_setas(as); as_activate()                               *)
execv_install ==
  /\ ex.pc = "created"
  /\ ex' = [ex EXCEPT !.old_as = ex.cur, !.cur = ex.as,
                      !.live = setas(ex.live, ex.cur), !.pc = "installed"]
  /\ UNCHANGED pvars

(* load_elf; vfs_close                                                     *)
execv_load ==
  /\ ex.pc = "installed"
  /\ \/ ex' = execv_return("ENOEXEC")
     \/ ex' = [ex EXCEPT !.loaded = TRUE, !.pc = "loaded"]
  /\ UNCHANGED pvars

(* as_define_stack; stackptrs = array_create(); stacktop = stackptr        *)
execv_stack ==
  /\ ex.pc = "loaded"
  /\ \/ ex' = execv_return("ENOMEM")
     \/ ex' = [ex EXCEPT !.stackptr = StackTop, !.stacktop = StackTop,
                         !.stackptrs = << >>, !.i = 0, !.pc = "strings"]
  /\ UNCHANGED pvars

(* one turn of the loop that pushes the strings: stacktop -= strlen + 1,   *)
(* array_add(stackptrs, stacktop), copyoutstr(arg, stacktop, 128)          *)
execv_string ==
  /\ ex.pc = "strings" /\ ex.i < ex.argc
  /\ \/ \E err \in {"ENOMEM", "EFAULT"} : ex' = execv_return(err)
     \/ \E arg \in argv_load(ex.i) :
          LET st == ex.stacktop - (strlen(arg) + 1) IN
          ex' = [ex EXCEPT !.stacktop = st, !.stackptrs = Append(@, st),
                           !.mem = copyoutstr(@, arg, st), !.i = @ + 1]
  /\ UNCHANGED pvars

(* stacktop = ROUNDUP(stacktop, 8) - 16; stacktop -= 8 * ROUNDUP(argc + 2, *)
(* 2); top = stacktop                                                      *)
execv_align ==
  /\ ex.pc = "strings" /\ ex.i = ex.argc
  /\ LET st == (ROUNDUP(ex.stacktop, 8) - 16) - 8 * ROUNDUP(ex.argc + 2, 2) IN
     ex' = [ex EXCEPT !.stacktop = st, !.top = st, !.i = 0, !.pc = "pointers"]
  /\ UNCHANGED pvars

(* one turn of the loop that stores the pointers: copyout of               *)
(* array_get(stackptrs, i) to stacktop; stacktop += 4                      *)
execv_pointer ==
  /\ ex.pc = "pointers" /\ ex.i < ex.argc
  /\ \/ ex' = execv_return("EFAULT")
     \/ ex' = [ex EXCEPT !.words = copyout(@, ex.stackptrs[ex.i + 1], ex.stacktop),
                         !.stacktop = @ + PtrSize, !.i = @ + 1]
  /\ UNCHANGED pvars

(* copyout of the null pointer that ends the vector                        *)
execv_null ==
  /\ ex.pc = "pointers" /\ ex.i = ex.argc
  /\ \/ ex' = execv_return("EFAULT")
     \/ ex' = [ex EXCEPT !.words = copyout(@, NULL, ex.stacktop), !.pc = "staged"]
  /\ UNCHANGED pvars

(* as_destroy(old_as); kfree of progname, argv[0..argc] and argv           *)
execv_destroy ==
  /\ ex.pc = "staged"
  /\ ex' = [ex EXCEPT !.live = @ \ {ex.old_as},
                      !.twice = (@ \/ ex.old_as \notin ex.live),
                      !.pc = "clean"]
  /\ UNCHANGED pvars

(* enter_new_process(argc, top, (vaddr_t)top, entrypoint)                  *)
execv_enter ==
  /\ ex.pc = "clean"
  /\ ex' = [ex EXCEPT !.entry = [argc |-> ex.argc, argv |-> ex.top, sp |-> ex.top],
                      !.pc = "entered"]
  /\ UNCHANGED pvars

sys_execv ==
  \/ execv_copyin \/ execv_create \/ execv_install \/ execv_load
  \/ execv_stack \/ execv_string \/ execv_align \/ execv_pointer
  \/ execv_null \/ execv_destroy \/ execv_enter

ExecNext == sys_execv

ExecSpec == ExecInit /\ [][ExecNext]_vars

(* =========================== properties ================================ *)
WaitPcs == {"wait_check", "wait_cv", "wait_sleep", "wait_wake", "wait_read"}
(* thread t is inside, or has just returned from, a sys_waitpid call       *)
InWait(t) == pc[t] \in WaitPcs \/ (pc[t] = "user" /\ res[t].call = "waitpid")
WaitReturned(t) == pc[t] = "user" /\ res[t].call = "waitpid"
(* the thread of c has performed its cv_broadcast                          *)
Announced(c) == pc[c] = "exited" /\ hist[c].dec = "zombie"

(* C1: no missed wakeup.  A parent that found its child Alive and went to  *)
(* sleep on the child's condition variable is woken by the child's exit:   *)
(* there is no state in which the child has set Zombie and broadcast while *)
(* its parent is asleep on the child's condition variable (nothing would   *)
(* ever wake it again).                                                    *)
C1_NoMissedWakeup ==
  \A t \in Procs, c \in Procs :
    ~(/\ pc[t] = "wait_sleep" /\ loc[t].child = c
      /\ parent[c] = t /\ ~destroyed[c]
      /\ status[c] = "Zombie" /\ Announced(c))

(* C2: a waitpid(pid, status, 0) on a child that completed sys__exit(c)    *)
(* before the call (status being a writable location) never blocks on the  *)
(* condition variable and returns 0 with retval = pid and the status       *)
(* _MKWAIT_EXIT(c).                                                        *)
C2_ExitedChildIsCollectedAtOnce ==
  \A t \in Procs :
    (InWait(t) /\ hist[t].pre /\ loc[t].opt = 0 /\ loc[t].ptr) =>
      /\ pc[t] \notin {"wait_cv", "wait_sleep", "wait_wake"}
      /\ ~hist[t].blocked
      /\ WaitReturned(t) =>
           /\ res[t] = Returned("waitpid", "0", loc[t].pid)
           /\ ustatus[t] = MKWAIT_EXIT(loc[loc[t].pid].code)

(* C3: a child is reaped only once.  Once waitpid has returned success for *)
(* child p, the record of p is destroyed and gone from the caller's        *)
(* children, and a later waitpid(p) by the same caller returns ESRCH.      *)
C3_ReapedOnlyOnce ==
  \A t \in Procs :
    /\ \A c \in reaped[t] : destroyed[c] /\ c \notin SeqToSet(children[t])
    /\ (WaitReturned(t) /\ hist[t].again /\ loc[t].opt = 0) =>
         res[t].ret = "ESRCH"

(* C4: no operation reads or writes a field of a record that was passed to *)
(* proc_destroy.                                                           *)
C4_NoUseAfterDestroy == uaf = FALSE

(* C5: when a process has finished sys__exit, every child that was a       *)
(* Zombie it had not waited for when the exit began is destroyed and       *)
(* removed from its children.                                              *)
C5_ZombieChildrenReclaimed ==
  \A t \in Procs :
    pc[t] = "exited" =>
      \A c \in hist[t].zkids : destroyed[c] /\ c \notin SeqToSet(children[t])

(* C6: the exit decision rule.  A process that exits with no parent able   *)
(* to wait for it (no parent, parent record gone, or parent Zombie) is     *)
(* destroyed and its status and exit code are never set; otherwise it is   *)
(* not destroyed, is Zombie with the exit code it passed, and is reachable *)
(* from the children collection of its parent.                             *)
C6_ExitDecisionRule ==
  \A t \in Procs :
    pc[t] = "exited" =>
      \/ /\ hist[t].dec = "destroy"
         /\ destroyed[t] /\ status[t] = "Alive" /\ exitcode[t] = Unset
      \/ /\ hist[t].dec = "zombie" /\ ~hist[t].pgone
         /\ ~destroyed[t] /\ status[t] = "Zombie" /\ exitcode[t] = loc[t].code
         /\ t \in SeqToSet(children[parent[t]])

(* C7: when sys_fork returns an error the caller's children collection is  *)
(* what it was before the call and holds no destroyed record that never    *)
(* ran.                                                                    *)
C7_FailedForkLeavesNoChild ==
  \A t \in Procs :
    (pc[t] = "user" /\ res[t].call = "fork" /\ res[t].ret # "0") =>
      /\ Len(children[t]) = hist[t].nkids
      /\ \A c \in SeqToSet(children[t]) : ~(destroyed[c] /\ pc[c] = "unborn")

(* C8: a sys_waitpid call with options != 0 returns EINVAL in its first    *)
(* step, whatever the pid names, takes no lock, does not block, and leaves *)
(* every process record, children collection and status location as it    *)
(* was.                                                                    *)
C8_NonzeroOptionsRejected ==
  [][\A t \in Procs :
       (calls'[t] # calls[t] /\ loc'[t].opt # 0) =>
         /\ res'[t] = Returned("waitpid", "EINVAL", 0)
         /\ pc' = pc
         /\ UNCHANGED <<recs, lockHolder, ustatus, nextPid, reaped>>]_vars

(* a waitpid with nonzero options on a Zombie child came back with EINVAL  *)
C8_Witness ==
  \E t \in Procs :
    /\ pc[t] = "user" /\ res[t] = Returned("waitpid", "EINVAL", 0)
    /\ loc[t].opt # 0
    /\ loc[t].pid \in SeqToSet(children[t])
    /\ status[loc[t].pid] = "Zombie"

(* C9: a waitpid(pid, status, 0) for a pid that is not the pid of a record *)
(* in the caller's children returns ESRCH with retval -1, never blocks,    *)
(* does not write the status location and leaves the caller's lock free.   *)
C9_UnknownPidNotFound ==
  \A t \in Procs :
    (InWait(t) /\ loc[t].opt = 0 /\ loc[t].pid \notin SeqToSet(children[t])) =>
      /\ pc[t] = "user"
      /\ WaitReturned(t) =>
           /\ res[t] = Returned("waitpid", "ESRCH", -1)
           /\ ~hist[t].blocked /\ ~hist[t].wrote
           /\ lockHolder[t] = NULL

(* C10: every sys__exit reaches thread_exit, and a process whose parent    *)
(* had already exited when it began its own exit is destroyed by that exit *)
(* (nobody observes its status).                                           *)
C10_OrphanDestroyedOnExit ==
  \A t \in Procs :
    (pc[t] = "exited" /\ hist[t].pexited) => destroyed[t]

(* C12: no torn read of the exit code.  A waiter that has seen its child's *)
(* status to be other than Alive reads, from child->exitcode, the code the *)
(* child passed to sys__exit: there is no state in which the waiter has    *)
(* observed Zombie while the exit code is not written yet.                 *)
C12_NoTornRead ==
  \A t \in Procs :
    (pc[t] = "wait_read" /\ ~destroyed[loc[t].child]) =>
      /\ exitcode[loc[t].child] # Unset
      /\ exitcode[loc[t].child] = loc[loc[t].child].code

(* the lock handed to cv_broadcast by the exiting thread of t (the p_Lock  *)
(* of the record named), and the one handed to cv_wait by the waiter t     *)
bcast_lock(t) == parent[t]
wait_lock(t) == t

(* C13: same-lock handshake.  At every cv_broadcast(p->p_cv, L) and at     *)
(* every cv_wait(child->p_cv, L) the calling thread holds L, and the       *)
(* broadcast on a child's condition variable names the lock that the       *)
(* waiter on it names.                                                     *)
C13_SameLockHandshake ==
  \A t \in Procs :
    /\ pc[t] = "exit_bcast" => lockHolder[bcast_lock(t)] = t
    /\ pc[t] = "wait_cv" =>
         /\ lockHolder[wait_lock(t)] = t
         /\ ~destroyed[loc[t].child] => bcast_lock(loc[t].child) = wait_lock(t)

(* C16: a successful fork yields a running child.  When sys_fork has       *)
(* returned 0 with retval the child's pid, the child has been handed a     *)
(* thread of its own: it is not a registered child that never runs.        *)
C16_SuccessfulForkStartsChild ==
  \A t \in Procs :
    (res[t].call = "fork" /\ res[t].ret = "0") =>
      /\ res[t].retval \in SeqToSet(children[t])
      /\ pc[res[t].retval] # "unborn"

(* C20: write-once record fields.  parent is assigned only by sys_fork, to *)
(* the record it has just created, and never changes afterwards; status    *)
(* only ever goes from Alive to Zombie; the exit code is written at most   *)
(* once and is unchanged afterwards.                                       *)
C20_RecordFieldsWriteOnce ==
  [][\A p \in Procs :
       /\ parent'[p] # parent[p] =>
            /\ parent[p] = NULL /\ pc[p] = "unborn" /\ p = nextPid
            /\ pc[parent'[p]] = "user" /\ pc'[parent'[p]] = "fork_copy"
       /\ status'[p] # status[p] => (status[p] = "Alive" /\ status'[p] = "Zombie")
       /\ exitcode'[p] # exitcode[p] => exitcode[p] = Unset]_vars

(* a forked process has become Zombie with the code it passed to _exit,    *)
(* and still is so after its parent has collected it with waitpid          *)
C20_Witness ==
  \E p \in Procs :
    /\ parent[p] # NULL /\ pc[p] = "exited" /\ ~destroyed[p]
    /\ status[p] = "Zombie" /\ exitcode[p] = loc[p].code
    /\ p \in reaped[parent[p]]

(* the p_Locks held by thread t *)
Held(t) == {l \in Procs : lockHolder[l] = t}

(* C19: lock balance.  No p_Lock is held by a thread that has returned to  *)
(* user mode or has exited (sys_fork and sys_waitpid release the caller's  *)
(* lock on every return path, sys__exit holds none at thread_exit); the    *)
(* forking thread has released its lock when the child's thread starts;    *)
(* and a lock is released only by the thread that holds it.                *)
C19_LockBalance ==
  /\ [](\A t \in Procs : pc[t] \in {"user", "exited", "unborn"} => Held(t) = {})
  /\ [][\A l \in Procs :
          /\ (lockHolder[l] # NULL /\ lockHolder'[l] # lockHolder[l]) =>
               (lockHolder'[l] = NULL /\ pc'[lockHolder[l]] # pc[lockHolder[l]])
          /\ (pc[l] = "unborn" /\ pc'[l] = "user") => lockHolder'[parent[l]] = NULL]_vars

(* sys_fork has returned the error of a failed as_copy (the child had been *)
(* added under the lock) and the caller's lock is free                     *)
C19_Witness ==
  \E t \in Procs :
    /\ pc[t] = "user" /\ res[t] = Returned("fork", "ENOMEM", 0)
    /\ Len(children[t]) > hist[t].nkids
    /\ Held(t) = {}

(* C15: single-writer children and lock-guarded record fields.  The        *)
(* children of P are changed only by a step of P's own thread that holds   *)
(* P's p_Lock, and the status and exit code of a record are written only   *)
(* while that record's p_Lock is held.                                     *)
C15_WritesUnderRecordLock ==
  [][\A p \in Procs :
       /\ children'[p] # children[p] =>
            (pc'[p] # pc[p] /\ lockHolder'[p] = p)
       /\ (status'[p] # status[p] \/ exitcode'[p] # exitcode[p]) =>
            (lockHolder'[p] # NULL /\ pc'[lockHolder'[p]] # pc[lockHolder'[p]])]_vars

(* C14: no premature return from wait.  sys_waitpid tests the child's      *)
(* status again after every wakeup: it never leaves the status loop, never *)
(* writes a status and never returns success for a child of the caller     *)
(* whose status is still Alive.                                            *)
C14_NoPrematureReturn ==
  \A t \in Procs :
    LET c == loc[t].pid IN
    (/\ pc[t] = "wait_read" \/ (WaitReturned(t) /\ res[t].ret = "0")
     /\ parent[c] = t /\ ~destroyed[c]) =>
      status[c] = "Zombie"

(* the n bytes of user memory from address a on *)
ReadBytes(mem, a, n) ==
  [j \in 1..n |-> IF a + j - 1 \in DOMAIN mem THEN mem[a + j - 1] ELSE "unmapped"]

(* the pointer stored in slot k (from 0) of the vector at user address v *)
Slot(v, k) ==
  IF v + PtrSize * k \in DOMAIN ex.words THEN ex.words[v + PtrSize * k] ELSE -1

(* C11: exec argument stack layout.  When sys_execv succeeds for an        *)
(* argument vector of argc strings it passes argc and the address of a     *)
(* pointer vector to the new entry point; the vector base is 8-byte        *)
(* aligned; entry i holds the user address of a byte-exact copy of string  *)
(* i with its NUL; entry argc is the null pointer; and the argc + 1        *)
(* four-byte slots lie strictly below every copied string and do not       *)
(* overlap each other.                                                     *)
C11_ExecStackLayout ==
  ex.pc = "entered" =>
    LET n == Len(ex.args)
        v == ex.entry.argv IN
    /\ ex.entry.argc = n
    /\ v % 8 = 0
    /\ \A i \in 1..n :
         /\ ReadBytes(ex.mem, Slot(v, i - 1), Len(ex.args[i]) + 1)
              = Append(ex.args[i], NUL)
         /\ v + PtrSize * (n + 1) <= Slot(v, i - 1)
    /\ Slot(v, n) = NULL
    /\ DOMAIN ex.words = {v + PtrSize * k : k \in 0..n}
    /\ \A x \in DOMAIN ex.mem : v + PtrSize * (n + 1) <= x

(* the address spaces destroyed by the step *)
Destroys == ex.live \ ex'.live

(* C17: exec staging order.  sys_execv destroys only the old address       *)
(* space, and only after the new one is installed, the executable is       *)
(* loaded, the stack is defined and every argument string, every vector    *)
(* pointer and the terminating null have been copied out; on every error   *)
(* return as_destroy(old_as) has not been called.                          *)
C17_ExecStagingOrder ==
  /\ [][Destroys # {} =>
          /\ Destroys = {ex.old_as} /\ ex.old_as # ex.cur
          /\ ex.cur = ex.as /\ ex.loaded /\ ex.stackptr = StackTop
          /\ Len(ex.stackptrs) = ex.argc
          /\ \A k \in 1..ex.argc :
               /\ ex.stackptrs[k] \in DOMAIN ex.mem
               /\ Slot(ex.top, k - 1) = ex.stackptrs[k]
          /\ Slot(ex.top, ex.argc) = NULL]_vars
  /\ [](ex.pc = "failed" => ("as0" \in ex.live /\ ~ex.twice))

(* a call with arguments has entered the new program, the old address      *)
(* space destroyed once and the new one installed                          *)
C17_Witness ==
  /\ ex.pc = "entered" /\ ex.argc >= 1
  /\ ex.cur = "as1" /\ ex.live = {"as1"} /\ ~ex.twice

(* C18: address spaces are owned or destroyed.  When a sys_execv call is   *)
(* over, with success or with an error, every address space that has not   *)
(* been destroyed is the one the process owns, and none was destroyed      *)
(* twice: a failing call leaves no address space that is neither owned by  *)
(* a process nor destroyed.                                                *)
C18_AddressSpacesOwnedOrDestroyed ==
  /\ ~ex.twice
  /\ ex.pc \in {"failed", "entered"} => \A a \in ex.live : a = ex.cur
====
